---- MODULE Spec2Model ----
(***************************************************************************)
(* A model of src/http_parser.py: the request parser HTTPRequest, the      *)
(* response builder HTTPResponse and the accept loop SimpleHTTPServer.      *)
(*                                                                         *)
(* Bytes and characters are one-character strings.  A byte >= 0x80 is      *)
(* written "xHH" and a non-ASCII code point "U+HH".  A bytes or str value   *)
(* is a sequence of them.  Python's None is the empty sequence None and a   *)
(* present optional value x is the one-element sequence Some(x).            *)
(***************************************************************************)
EXTENDS Integers, Sequences, FiniteSets, TLC

VARIABLES
    pc,            \* position inside HTTPRequest.parse
    data,          \* the argument of HTTPRequest.parse
    lines,         \* parse: the local `lines`
    body_section,  \* parse: the local `body_section`
    request,       \* the HTTPRequest under construction
    error,         \* the ValueError raised by parse, or None
    response,      \* the HTTPResponse: status_code, status_text, headers, body, version
    output,        \* Some(bytes returned by the latest build()), or None
    last_call,     \* the latest HTTPResponse method call and its arguments
    calls,         \* number of HTTPResponse method calls made so far
    srv            \* SimpleHTTPServer.start: position, sockets, per-connection log

vars == <<pc, data, lines, body_section, request, error,
          response, output, last_call, calls, srv>>
parseVars == <<pc, data, lines, body_section, request, error>>
respVars == <<response, output, last_call, calls>>

----------------------------------------------------------------------------
(* Bounds of the model *)

MaxHeaderLines == 2
MaxFuzzLen == 4
MaxCalls == 4
MaxConnections == 3

----------------------------------------------------------------------------
(* Python values *)

None == <<>>
Some(x) == <<x>>

Min(S) == CHOOSE x \in S : \A y \in S : x <= y
Max(S) == CHOOSE x \in S : \A y \in S : x >= y

CR == "\r"
LF == "\n"
CRLF == <<CR, LF>>

UpperLetters == <<"A","B","C","D","E","F","G","H","I","J","K","L","M",
                  "N","O","P","Q","R","S","T","U","V","W","X","Y","Z">>
LowerLetters == <<"a","b","c","d","e","f","g","h","i","j","k","l","m",
                  "n","o","p","q","r","s","t","u","v","w","x","y","z">>
Digits == <<"0","1","2","3","4","5","6","7","8","9">>

\* str.isspace(): the characters str.strip() removes.
Whitespace == {" ", "\t", "\n", "\r", "\f", "U+0B", "U+1C", "U+1D", "U+1E",
               "U+1F", "U+85", "U+A0"}

\* The bytes >= 0x80 of the model, and the two-byte UTF-8 sequences among them.
NonAsciiBytes == {"xC3", "xA9", "x89", "xE9", "xC9", "xFF"}
Utf8Pairs == {<<"xC3", "xA9", "U+E9">>, <<"xC3", "x89", "U+C9">>}

\* str.upper() and str.lower(), per character.
UpperChar(c) ==
    IF \E i \in 1..26 : LowerLetters[i] = c
    THEN UpperLetters[CHOOSE i \in 1..26 : LowerLetters[i] = c]
    ELSE IF c = "U+E9" THEN "U+C9" ELSE c
LowerChar(c) ==
    IF \E i \in 1..26 : UpperLetters[i] = c
    THEN LowerLetters[CHOOSE i \in 1..26 : UpperLetters[i] = c]
    ELSE IF c = "U+C9" THEN "U+E9" ELSE c
Upper(s) == [i \in 1..Len(s) |-> UpperChar(s[i])]
Lower(s) == [i \in 1..Len(s) |-> LowerChar(s[i])]

\* str.strip()
Strip(s) ==
    LET keep == {i \in 1..Len(s) : s[i] \notin Whitespace}
    IN  IF keep = {} THEN <<>> ELSE SubSeq(s, Min(keep), Max(keep))

\* `sub in s` and s.find(sub) + 1 (0 when absent)
Find(s, sub) ==
    LET n == Len(sub)
        hits == {i \in 1..(Len(s) - n + 1) : \A k \in 1..n : s[i + k - 1] = sub[k]}
    IN  IF hits = {} THEN 0 ELSE Min(hits)
Contains(s, sub) == Find(s, sub) # 0

\* s.split(sep, 1)
SplitOnce(s, sep) ==
    LET i == Find(s, sep)
    IN  IF i = 0 THEN <<s>>
        ELSE <<SubSeq(s, 1, i - 1), SubSeq(s, i + Len(sep), Len(s))>>

\* s.split(sep)
RECURSIVE Split(_, _)
Split(s, sep) ==
    LET i == Find(s, sep)
    IN  IF i = 0 THEN <<s>>
        ELSE <<SubSeq(s, 1, i - 1)>> \o Split(SubSeq(s, i + Len(sep), Len(s)), sep)

\* bytes.decode('utf-8', errors): [ok, text]; ok is FALSE for UnicodeDecodeError.
\* A byte >= 0x80 outside a two-byte sequence is invalid: 'strict' raises on it and
\* 'ignore' drops it.
Decode(b, errors) ==
    LET n == Len(b)
        PairAt(i) == i < n /\ \E p \in Utf8Pairs : p[1] = b[i] /\ p[2] = b[i + 1]
        SecondAt(i) == i > 1 /\ PairAt(i - 1)
        Invalid(i) == b[i] \in NonAsciiBytes /\ ~PairAt(i) /\ ~SecondAt(i)
        CharAt(i) ==
            IF PairAt(i)
            THEN (CHOOSE q \in Utf8Pairs : q[1] = b[i] /\ q[2] = b[i + 1])[3]
            ELSE b[i]
        kept == SelectSeq([i \in 1..n |-> i], LAMBDA i : ~Invalid(i) /\ ~SecondAt(i))
    IN  IF errors = "strict" /\ \E i \in 1..n : Invalid(i)
        THEN [ok |-> FALSE, text |-> <<>>]
        ELSE [ok |-> TRUE, text |-> [k \in 1..Len(kept) |-> CharAt(kept[k])]]

\* int(s): Some(n), or None for ValueError.
RECURSIVE DigitsValue(_, _)
DigitsValue(s, acc) ==
    IF s = <<>> THEN acc
    ELSE IF Head(s) = "_" THEN DigitsValue(Tail(s), acc)
    ELSE DigitsValue(Tail(s),
                     10 * acc + (CHOOSE d \in 0..9 : Digits[d + 1] = Head(s)))
IsDigit(c) == \E d \in 1..10 : Digits[d] = c
PyInt(s) ==
    LET t == Strip(s)
        signed == t # <<>> /\ Head(t) \in {"+", "-"}
        ds == IF signed THEN Tail(t) ELSE t
        wellFormed ==
            /\ ds # <<>>
            /\ \A i \in 1..Len(ds) : IsDigit(ds[i]) \/ ds[i] = "_"
            /\ IsDigit(ds[1]) /\ IsDigit(ds[Len(ds)])
            /\ \A i \in 1..(Len(ds) - 1) : ~(ds[i] = "_" /\ ds[i + 1] = "_")
    IN  IF ~wellFormed THEN None
        ELSE IF signed /\ Head(t) = "-" THEN Some(0 - DigitsValue(ds, 0))
        ELSE Some(DigitsValue(ds, 0))

\* str.encode(encoding): [ok, bytes]; ok is FALSE for UnicodeEncodeError.
NonAsciiChars == {"U+E9", "U+C9"}
UTF8 == <<"u","t","f","-","8">>
LATIN1 == <<"l","a","t","i","n","-","1">>
ASCII == <<"a","s","c","i","i">>
EncodeChar(c, encoding) ==
    IF c \notin NonAsciiChars THEN <<c>>
    ELSE IF encoding = UTF8
    THEN LET p == CHOOSE q \in Utf8Pairs : q[3] = c IN <<p[1], p[2]>>
    ELSE IF c = "U+E9" THEN <<"xE9">> ELSE <<"xC9">>
Encode(s, encoding) ==
    LET wide == [k \in 1..(2 * Len(s)) |->
                    LET e == EncodeChar(s[(k + 1) \div 2], encoding)
                    IN  IF k % 2 = 1 THEN e[1] ELSE IF Len(e) = 2 THEN e[2] ELSE ""]
    IN  IF encoding = ASCII /\ \E i \in 1..Len(s) : s[i] \in NonAsciiChars
        THEN [ok |-> FALSE, bytes |-> <<>>]
        ELSE [ok |-> TRUE, bytes |-> SelectSeq(wide, LAMBDA x : x # "")]

\* str(n) for n >= 0
RECURSIVE Str(_)
Str(n) == IF n < 10 THEN <<Digits[n + 1]>> ELSE Str(n \div 10) \o <<Digits[(n % 10) + 1]>>

\* sep.join(parts)
RECURSIVE Join(_, _)
Join(parts, sep) ==
    IF parts = <<>> THEN <<>>
    ELSE IF Len(parts) = 1 THEN parts[1]
    ELSE parts[1] \o sep \o Join(Tail(parts), sep)

\* b[:n]
SlicePrefix(b, n) ==
    IF n >= 0 THEN SubSeq(b, 1, IF n < Len(b) THEN n ELSE Len(b))
    ELSE SubSeq(b, 1, IF Len(b) + n > 0 THEN Len(b) + n ELSE 0)

----------------------------------------------------------------------------
(* HTTPRequest *)

DEFAULT_MAX_BODY_SIZE == 10 * 1024

\* HTTPRequest.__init__
NewRequest ==
    [method |-> <<>>, path |-> <<>>, version |-> <<>>,
     headers |-> <<>>, body |-> <<>>,
     host |-> None, content_type |-> None, content_length |-> None,
     user_agent |-> None]

\* Frame with the two delimiters tried in the other order.
FrameLfFirst(d) ==
    IF Contains(d, <<LF, LF>>)
    THEN LET hb == SplitOnce(d, <<LF, LF>>)
         IN  [lines |-> Split(hb[1], <<LF>>), body_section |-> hb[2]]
    ELSE IF Contains(d, CRLF \o CRLF)
    THEN LET hb == SplitOnce(d, CRLF \o CRLF)
         IN  [lines |-> Split(hb[1], CRLF), body_section |-> hb[2]]
    ELSE [lines |-> IF Contains(d, CRLF) THEN Split(d, CRLF) ELSE Split(d, <<LF>>),
          body_section |-> <<>>]

\* parse, lines 23-32: [lines, body_section]
Frame(d) ==
    IF Contains(d, CRLF \o CRLF)
    THEN LET hb == SplitOnce(d, CRLF \o CRLF)
         IN  [lines |-> Split(hb[1], CRLF), body_section |-> hb[2]]
    ELSE IF Contains(d, <<LF, LF>>)
    THEN LET hb == SplitOnce(d, <<LF, LF>>)
         IN  [lines |-> Split(hb[1], <<LF>>), body_section |-> hb[2]]
    ELSE [lines |-> IF Contains(d, CRLF) THEN Split(d, CRLF) ELSE Split(d, <<LF>>),
          body_section |-> <<>>]

\* RequestLine storing the method as received.
RequestLineNoUpper(line) ==
    LET dec == Decode(line, "strict")
        parts == Split(Strip(dec.text), <<" ">>)
    IN  IF ~dec.ok
        THEN [error |-> Some([kind |-> "decode", parts |-> 0]),
              method |-> <<>>, path |-> <<>>, version |-> <<>>]
        ELSE IF Len(parts) # 3
        THEN [error |-> Some([kind |-> "format", parts |-> Len(parts)]),
              method |-> <<>>, path |-> <<>>, version |-> <<>>]
        ELSE [error |-> None,
              method |-> parts[1], path |-> parts[2], version |-> parts[3]]

\* RequestLine rejecting only lines of fewer than 3 parts.
RequestLineAtLeast3(line) ==
    LET dec == Decode(line, "strict")
        parts == Split(Strip(dec.text), <<" ">>)
    IN  IF ~dec.ok
        THEN [error |-> Some([kind |-> "decode", parts |-> 0]),
              method |-> <<>>, path |-> <<>>, version |-> <<>>]
        ELSE IF Len(parts) < 3
        THEN [error |-> Some([kind |-> "format", parts |-> Len(parts)]),
              method |-> <<>>, path |-> <<>>, version |-> <<>>]
        ELSE [error |-> None,
              method |-> Upper(parts[1]), path |-> parts[2], version |-> parts[3]]

\* _parse_request_line: [error, method, path, version]
RequestLine(line) ==
    LET dec == Decode(line, "strict")
        parts == Split(Strip(dec.text), <<" ">>)
    IN  IF ~dec.ok
        THEN [error |-> Some([kind |-> "decode", parts |-> 0]),
              method |-> <<>>, path |-> <<>>, version |-> <<>>]
        ELSE IF Len(parts) # 3
        THEN [error |-> Some([kind |-> "format", parts |-> Len(parts)]),
              method |-> <<>>, path |-> <<>>, version |-> <<>>]
        ELSE [error |-> None,
              method |-> Upper(parts[1]), path |-> parts[2], version |-> parts[3]]

\* self.headers[name] = value
SetItem(h, name, value) ==
    [k \in (DOMAIN h) \cup {name} |-> IF k = name THEN value ELSE h[k]]
\* self.headers.get(name)
Get(h, name) == IF name \in DOMAIN h THEN Some(h[name]) ELSE None

\* HeaderLines keeping the first value stored for a name.
RECURSIVE HeaderLinesFirstWins(_, _)
HeaderLinesFirstWins(ls, h) ==
    IF ls = <<>> THEN h
    ELSE LET line_str == Strip(Decode(Head(ls), "ignore").text)
         IN  IF line_str = <<>> THEN HeaderLinesFirstWins(Tail(ls), h)
             ELSE IF ~Contains(line_str, <<":">>) THEN HeaderLinesFirstWins(Tail(ls), h)
             ELSE LET nv == SplitOnce(line_str, <<":">>)
                      name == Lower(Strip(nv[1]))
                      value == Strip(nv[2])
                  IN  HeaderLinesFirstWins(Tail(ls),
                          IF name \in DOMAIN h THEN h ELSE SetItem(h, name, value))

\* _parse_headers, lines 57-68: the loop over the header lines
RECURSIVE HeaderLines(_, _)
HeaderLines(ls, h) ==
    IF ls = <<>> THEN h
    ELSE LET line_str == Strip(Decode(Head(ls), "ignore").text)
         IN  IF line_str = <<>> THEN HeaderLines(Tail(ls), h)
             ELSE IF ~Contains(line_str, <<":">>) THEN HeaderLines(Tail(ls), h)
             ELSE LET nv == SplitOnce(line_str, <<":">>)
                      name == Lower(Strip(nv[1]))
                      value == Strip(nv[2])
                  IN  HeaderLines(Tail(ls), SetItem(h, name, value))

HOST == <<"h","o","s","t">>
CONTENT_TYPE == <<"c","o","n","t","e","n","t","-","t","y","p","e">>
USER_AGENT == <<"u","s","e","r","-","a","g","e","n","t">>
CONTENT_LENGTH == <<"c","o","n","t","e","n","t","-","l","e","n","g","t","h">>

\* _parse_headers, lines 74-78
ContentLength(h, old) ==
    IF CONTENT_LENGTH \in DOMAIN h THEN PyInt(h[CONTENT_LENGTH]) ELSE old

\* _parse_body
Body(r, initial_body) ==
    IF r.content_length # None
    THEN SlicePrefix(initial_body, r.content_length[1])
    ELSE SlicePrefix(initial_body, DEFAULT_MAX_BODY_SIZE)

\* parse, lines 21-37
ParseFrame ==
    /\ pc = "start"
    /\ LET f == Frame(data)
       IN  /\ lines' = f.lines
           /\ body_section' = f.body_section
           /\ IF f.lines = <<>>
              THEN /\ error' = Some([kind |-> "empty", parts |-> 0])
                   /\ pc' = "raised"
              ELSE /\ error' = error
                   /\ pc' = "request_line"
    /\ request' = NewRequest
    /\ UNCHANGED <<data, respVars, srv>>

\* parse, line 39
ParseRequestLine ==
    /\ pc = "request_line"
    /\ LET r == RequestLine(lines[1])
       IN  IF r.error # None
           THEN /\ error' = r.error
                /\ pc' = "raised"
                /\ request' = request
           ELSE /\ request' = [request EXCEPT !.method = r.method,
                                              !.path = r.path,
                                              !.version = r.version]
                /\ pc' = "headers"
                /\ error' = error
    /\ UNCHANGED <<data, lines, body_section, respVars, srv>>

\* parse, line 40
ParseHeaders ==
    /\ pc = "headers"
    /\ LET h == HeaderLines(Tail(lines), request.headers)
       IN  request' = [request EXCEPT
                          !.headers = h,
                          !.host = Get(h, HOST),
                          !.content_type = Get(h, CONTENT_TYPE),
                          !.user_agent = Get(h, USER_AGENT),
                          !.content_length = ContentLength(h, request.content_length)]
    /\ pc' = "body"
    /\ UNCHANGED <<data, lines, body_section, error, respVars, srv>>

\* parse, lines 41-42
ParseBody ==
    /\ pc = "body"
    /\ request' = [request EXCEPT !.body = Body(request, body_section)]
    /\ pc' = "returned"
    /\ UNCHANGED <<data, lines, body_section, error, respVars, srv>>

\* HTTPRequest.parse(data) as one function: [error, request]
Parse(d) ==
    LET f == Frame(d)
        r == RequestLine(f.lines[1])
        h == HeaderLines(Tail(f.lines), <<>>)
        q == [NewRequest EXCEPT !.method = r.method, !.path = r.path,
                                !.version = r.version, !.headers = h,
                                !.host = Get(h, HOST),
                                !.content_type = Get(h, CONTENT_TYPE),
                                !.user_agent = Get(h, USER_AGENT),
                                !.content_length = ContentLength(h, None)]
    IN  IF r.error # None THEN [error |-> r.error, request |-> NewRequest]
        ELSE [error |-> None, request |-> [q EXCEPT !.body = Body(q, f.body_section)]]

----------------------------------------------------------------------------
(* The inputs of HTTPRequest.parse *)

SeqsUpTo(S, n) == UNION {[1..k -> S] : k \in 0..n}
Rep(c, n) == [i \in 1..n |-> c]

RL_OK == <<"g","e","t"," ","/","e"," ","H","/","1">>
RequestLineSet ==
    { RL_OK,
      <<"g","e","t"," ","/","e">>,
      <<"g","e","t"," ","/","e"," ","H","/","1"," ","x">>,
      <<"g","e","t"," "," ","H","/","1">>,
      <<"g","e","t"," "," ","/","e"," ","H","/","1">>,
      <<>>,
      <<"\t","g","e","t"," ","/","e"," ","H","/","1"," ">>,
      <<"g","xFF"," ","/","e"," ","H","/","1">>,
      <<"g","xC3","xA9"," ","/","e"," ","H","/","1">> }

HL_CL3 == <<"C","o","n","t","e","n","t","-","L","e","n","g","t","h",":"," ","3">>
HeaderLineSet ==
    { HL_CL3,
      <<"c","o","n","t","e","n","t","-","l","e","n","g","t","h",":","-","2">>,
      <<"C","O","N","T","E","N","T","-","L","E","N","G","T","H"," ",":"," ","z">>,
      <<"C","o","n","t","e","n","t","-","L","e","n","g","t","h",":"," ","2","0">>,
      <<"C","o","n","t","e","n","t","-","L","e","n","g","t","h",":","+","1","_","0">>,
      <<"H","o","s","t",":"," ","a",":","b">>,
      <<"h","o","s","t",":","c"," ">>,
      <<"n","o"," ","c","o","l","o","n">>,
      <<>>,
      <<" ","X","xFF","\t",":"," ","v","xC3"," ">> }

BodySet ==
    { <<>>,
      <<"h","e","l","l","o","!">>,
      <<"a","b",CR,LF,CR,LF,"c","d">>,
      <<"a","b",LF,LF,"c","d">>,
      <<"a",CR,LF,"b">> }

FuzzBytes == {"G", " ", CR, LF, ":"}

\* request line, header lines, line separator, blank-line terminator, body
Message(rl, hs, sep, term, b) == Join(<<rl>> \o hs, sep) \o term \o b

HeaderInputs ==
    { Message(RL_OK, hs, sep, sep \o sep, <<"h","e","l","l","o","!">>) :
        hs \in SeqsUpTo(HeaderLineSet, MaxHeaderLines), sep \in {CRLF, <<LF>>} }
FramingInputs ==
    { Message(rl, hs, sep, term, b) :
        rl \in RequestLineSet, hs \in {<<>>, <<HL_CL3>>}, sep \in {CRLF, <<LF>>},
        term \in {CRLF \o CRLF, <<LF, LF>>, <<>>}, b \in BodySet }
LongInputs ==
    { Message(RL_OK, hs, sep, sep \o sep, Rep("a", DEFAULT_MAX_BODY_SIZE + k)) :
        hs \in {<<>>, <<HL_CL3>>}, sep \in {CRLF, <<LF>>}, k \in {-1, 0, 1} }
FuzzInputs == SeqsUpTo(FuzzBytes, MaxFuzzLen)

\* "METHOD PATH VERSION\r\nHeader: v\r\n\r\nBODY", the text parts UTF-8 encoded
WellFormed(m, p, ver, v, b) ==
    Encode(m \o <<" ">> \o p \o <<" ">> \o ver, UTF8).bytes \o CRLF
    \o Encode(<<"H","e","a","d","e","r",":"," ">> \o v, UTF8).bytes
    \o CRLF \o CRLF \o b
MethodSet == {<<"g","e","t">>, <<"P">>, <<"p","U+E9">>, <<"\t","g">>, <<"g","\t","T">>}
PathSet == {<<"/">>, <<"/","a",":","b","\t">>}
VersionSet == {<<"H","/","1">>, <<"v","\f">>}
ValueSet == {<<>>, <<"x">>, <<"a"," ","b">>, <<"a",":","U+E9">>}
WellFormedBodySet ==
    {<<>>, <<"h","i">>, <<"a",CR,LF,CR,LF,"b">>, <<LF,LF,"xFF">>,
     Rep("a", DEFAULT_MAX_BODY_SIZE)}
WellFormedInputs ==
    { WellFormed(m, p, ver, v, b) :
        m \in MethodSet, p \in PathSet, ver \in VersionSet, v \in ValueSet,
        b \in WellFormedBodySet }

Inputs == HeaderInputs \cup FramingInputs \cup LongInputs \cup FuzzInputs
          \cup WellFormedInputs

----------------------------------------------------------------------------
(* HTTPResponse *)

\* HTTPResponse.__init__: headers is the dict as its (name, value) items in
\* insertion order.
NewResponse(status_code, status_text) ==
    [status_code |-> status_code, status_text |-> status_text,
     headers |-> <<>>, body |-> <<>>,
     version |-> <<"H","T","T","P","/","1",".","1">>]

\* name in d, d[name] = value and d.setdefault-free insertion for an ordered dict
HasKey(d, name) == \E i \in 1..Len(d) : d[i][1] = name
DictSet(d, name, value) ==
    IF HasKey(d, name)
    THEN [i \in 1..Len(d) |-> IF d[i][1] = name THEN <<name, value>> ELSE d[i]]
    ELSE Append(d, <<name, value>>)

CONTENT_LENGTH_NAME == <<"C","o","n","t","e","n","t","-","L","e","n","g","t","h">>
CONTENT_TYPE_NAME == <<"C","o","n","t","e","n","t","-","T","y","p","e">>
TEXT_PLAIN_CHARSET ==
    <<"t","e","x","t","/","p","l","a","i","n",";"," ","c","h","a","r","s","e","t","=">>

\* set_header
WithHeader(r, name, value) == [r EXCEPT !.headers = DictSet(r.headers, name, value)]

\* set_body
WithBody(r, b) == [r EXCEPT !.body = b]

\* set_text_body that always writes Content-Type.
WithTextBodyOverwriting(r, text, encoding) ==
    [r EXCEPT !.body = Encode(text, encoding).bytes,
              !.headers = DictSet(r.headers, CONTENT_TYPE_NAME,
                                  TEXT_PLAIN_CHARSET \o encoding)]

\* set_text_body, for a text the encoding can encode
WithTextBody(r, text, encoding) ==
    [r EXCEPT !.body = Encode(text, encoding).bytes,
              !.headers = IF ~HasKey(r.headers, CONTENT_TYPE_NAME)
                          THEN DictSet(r.headers, CONTENT_TYPE_NAME,
                                       TEXT_PLAIN_CHARSET \o encoding)
                          ELSE r.headers]

\* for name, value in self.headers.items(): headers_section += ...
RECURSIVE HeadersSection(_)
HeadersSection(d) ==
    IF d = <<>> THEN <<>>
    ELSE d[1][1] \o <<":", " ">> \o d[1][2] \o CRLF \o HeadersSection(Tail(d))

\* build, lines 119-127: the bytes serialized from r
Serialize(r) ==
    LET status_line == r.version \o <<" ">> \o Str(r.status_code) \o <<" ">>
                       \o r.status_text \o CRLF
    IN  Encode(status_line, UTF8).bytes \o Encode(HeadersSection(r.headers), UTF8).bytes
        \o CRLF \o r.body

\* build that leaves an existing Content-Length header as it is.
BuiltKeepingLength(r) ==
    [r EXCEPT !.headers = IF HasKey(r.headers, CONTENT_LENGTH_NAME) THEN r.headers
                          ELSE DictSet(r.headers, CONTENT_LENGTH_NAME, Str(Len(r.body)))]

\* build that adds a Content-Length item on every call.
BuiltAppendingLength(r) ==
    [r EXCEPT !.headers = Append(r.headers, <<CONTENT_LENGTH_NAME, Str(Len(r.body))>>)]

\* build, line 118: the builder after build()
Built(r) ==
    [r EXCEPT !.headers = DictSet(r.headers, CONTENT_LENGTH_NAME, Str(Len(r.body)))]

OK_TEXT == <<"O","K">>
NOT_FOUND_TEXT == <<"N","o","t"," ","F","o","u","n","d">>
NoCall == [op |-> "none", prev |-> "none", raised |-> FALSE,
           name |-> <<>>, value |-> <<>>, text |-> <<>>, encoding |-> <<>>]
Call(op) == [NoCall EXCEPT !.op = op, !.prev = last_call.op]

NameSet == {CONTENT_LENGTH_NAME, CONTENT_TYPE_NAME,
            <<"c","o","n","t","e","n","t","-","l","e","n","g","t","h">>}
HeaderValueSet == {<<"7">>, <<"a",CR,LF,CR,LF,"b">>}
ResponseBodySet == {<<"h","i">>, <<CR,LF,CR,LF>>}
TextSet == {<<"o","k","!">>, <<"U+E9">>}
EncodingSet == {UTF8, LATIN1, ASCII}

set_header(name, value) ==
    /\ calls < MaxCalls
    /\ response' = WithHeader(response, name, value)
    /\ last_call' = [Call("set_header") EXCEPT !.name = name, !.value = value]
    /\ calls' = calls + 1
    /\ UNCHANGED <<output, parseVars, srv>>

set_body(b) ==
    /\ calls < MaxCalls
    /\ response' = WithBody(response, b)
    /\ last_call' = Call("set_body")
    /\ calls' = calls + 1
    /\ UNCHANGED <<output, parseVars, srv>>

\* text.encode(encoding) raises before anything is assigned
set_text_body(text, encoding) ==
    /\ calls < MaxCalls
    /\ response' = IF Encode(text, encoding).ok
                   THEN WithTextBody(response, text, encoding)
                   ELSE response
    /\ last_call' = [Call("set_text_body") EXCEPT !.text = text, !.encoding = encoding,
                                                   !.raised = ~Encode(text, encoding).ok]
    /\ calls' = calls + 1
    /\ UNCHANGED <<output, parseVars, srv>>

build ==
    /\ calls < MaxCalls
    /\ response' = Built(response)
    /\ output' = Some(Serialize(Built(response)))
    /\ last_call' = Call("build")
    /\ calls' = calls + 1
    /\ UNCHANGED <<parseVars, srv>>

----------------------------------------------------------------------------
(* SimpleHTTPServer.start *)

INTERNAL_SERVER_ERROR ==
    <<"I","n","t","e","r","n","a","l"," ","S","e","r","v","e","r"," ","E","r","r","o","r">>
ERROR_PREFIX == <<"E","r","r","o","r",":"," ">>
INVALID_REQUEST_LINE ==
    <<"I","n","v","a","l","i","d"," ","r","e","q","u","e","s","t"," ","l","i","n","e"," ",
      "f","o","r","m","a","t",":"," ","e","x","p","e","c","t","e","d"," ","3"," ",
      "p","a","r","t","s",","," ","g","o","t"," ">>
FAILED_TO_DECODE ==
    <<"F","a","i","l","e","d"," ","t","o"," ","d","e","c","o","d","e"," ",
      "r","e","q","u","e","s","t"," ","l","i","n","e",":"," ">>

\* str(e) of the ValueError parse raises; the codec's own description of a
\* UnicodeDecodeError is the one character "<UnicodeDecodeError>".
ParseErrorText(e) ==
    IF e.kind = "format" THEN INVALID_REQUEST_LINE \o Str(e.parts)
    ELSE FAILED_TO_DECODE \o <<"<UnicodeDecodeError>">>

\* str(e) of the exceptions of the handler and of the socket calls
HANDLER_ERROR == <<"b","o","o","m">>
RESET_BY_PEER == <<"r","e","s","e","t">>
BROKEN_PIPE == <<"p","i","p","e">>

\* lines 165-167: the bytes of the error response
ErrorResponse(message) ==
    Serialize(Built(WithTextBody(NewResponse(500, INTERNAL_SERVER_ERROR),
                                 ERROR_PREFIX \o message, UTF8)))

\* What a handler_func may do with a request: return a response or raise.
HandlerResponses(req) ==
    { WithTextBody(NewResponse(200, OK_TEXT), req.path, UTF8),
      WithTextBody(NewResponse(404, NOT_FOUND_TEXT), NOT_FOUND_TEXT, UTF8) }

ReceivedSet ==
    { <<>>,
      <<"g","e","t"," ","/"," ","H","/","1",CR,LF,CR,LF>>,
      <<"g","e","t"," ","/",CR,LF,CR,LF>> }

NewServer ==
    [pc |-> "init",
     listening |-> FALSE,    \* self.socket is open
     open |-> {},            \* the accepted client sockets not yet closed
     accepted |-> 0,         \* connections accepted so far
     data |-> <<>>,          \* the local `data`
     request |-> None,       \* the local `request`
     response |-> None,      \* the local `response`
     exc |-> None,           \* the exception bound to e in the except clause
     raising |-> "none",     \* the exception propagating out of the loop body
     log |-> <<>>]           \* per connection: what was sent, and whether it failed

\* The exception e is raised inside the inner try
Raise(message) ==
    srv' = [srv EXCEPT !.pc = "except", !.exc = Some(message),
                       !.log[srv.accepted].failed = TRUE]
Logged(bytes) == [srv.log EXCEPT ![srv.accepted].sent = Append(@, bytes)]

\* lines 142-147
Listen ==
    /\ srv.pc = "init"
    /\ srv' = [srv EXCEPT !.pc = "accept", !.listening = TRUE]
    /\ UNCHANGED <<parseVars, respVars>>

\* line 151
Accept ==
    /\ srv.pc = "accept"
    /\ srv.accepted < MaxConnections
    /\ srv' = [srv EXCEPT !.pc = "recv",
                          !.accepted = @ + 1,
                          !.open = @ \cup {srv.accepted + 1},
                          !.data = <<>>, !.request = None, !.response = None,
                          !.exc = None,
                          !.log = Append(@, [sent |-> <<>>, failed |-> FALSE])]
    /\ UNCHANGED <<parseVars, respVars>>

\* KeyboardInterrupt while accept() or recv() blocks
Interrupt ==
    /\ srv.pc \in {"accept", "recv"}
    /\ srv' = [srv EXCEPT !.raising = "KeyboardInterrupt",
                          !.pc = IF srv.pc = "recv" THEN "finally" ELSE "outer"]
    /\ UNCHANGED <<parseVars, respVars>>

\* lines 155-157
Recv ==
    /\ srv.pc = "recv"
    /\ \/ \E d \in ReceivedSet :
             srv' = [srv EXCEPT !.data = d,
                                !.pc = IF d = <<>> THEN "finally" ELSE "parse"]
       \/ Raise(RESET_BY_PEER)
    /\ UNCHANGED <<parseVars, respVars>>

\* line 158
ParseRequest ==
    /\ srv.pc = "parse"
    /\ LET r == Parse(srv.data)
       IN  IF r.error # None THEN Raise(ParseErrorText(r.error[1]))
           ELSE srv' = [srv EXCEPT !.request = Some(r.request), !.pc = "handle"]
    /\ UNCHANGED <<parseVars, respVars>>

\* line 160
Handle ==
    /\ srv.pc = "handle"
    /\ \/ \E r \in HandlerResponses(srv.request[1]) :
             srv' = [srv EXCEPT !.response = Some(r), !.pc = "send"]
       \/ Raise(HANDLER_ERROR)
    /\ UNCHANGED <<parseVars, respVars>>

\* line 161
Send ==
    /\ srv.pc = "send"
    /\ \/ srv' = [srv EXCEPT !.response = Some(Built(srv.response[1])),
                             !.log = Logged(Serialize(Built(srv.response[1]))),
                             !.pc = "finally"]
       \/ Raise(BROKEN_PIPE)
    /\ UNCHANGED <<parseVars, respVars>>

\* lines 163-167: sendall may raise again, and nothing catches that
Except ==
    /\ srv.pc = "except"
    /\ \/ srv' = [srv EXCEPT !.log = Logged(ErrorResponse(srv.exc[1])),
                             !.pc = "finally"]
       \/ srv' = [srv EXCEPT !.raising = "OSError", !.pc = "finally"]
    /\ UNCHANGED <<parseVars, respVars>>

\* lines 169-170, then the next iteration or the way out of the loop
Finally ==
    /\ srv.pc = "finally"
    /\ srv' = [srv EXCEPT !.open = @ \ {srv.accepted},
                          !.pc = IF srv.raising = "none" THEN "accept" ELSE "outer"]
    /\ UNCHANGED <<parseVars, respVars>>

\* lines 172-176: start() returns after a KeyboardInterrupt, raises otherwise
Outer ==
    /\ srv.pc = "outer"
    /\ srv' = [srv EXCEPT !.listening = FALSE,
                          !.pc = IF srv.raising = "KeyboardInterrupt"
                                 THEN "returned" ELSE "raised"]
    /\ UNCHANGED <<parseVars, respVars>>

----------------------------------------------------------------------------
(* Specifications: parse over the inputs, the builder's calls, the accept loop *)

Init ==
    /\ data \in Inputs
    /\ pc = "start"
    /\ lines = <<>>
    /\ body_section = <<>>
    /\ request = NewRequest
    /\ error = None
    /\ response = NewResponse(200, OK_TEXT)
    /\ output = None
    /\ last_call = NoCall
    /\ calls = 0
    /\ srv = NewServer

Next == ParseFrame \/ ParseRequestLine \/ ParseHeaders \/ ParseBody

Spec == Init /\ [][Next]_vars

InitResponse ==
    /\ response \in {NewResponse(200, OK_TEXT), NewResponse(404, NOT_FOUND_TEXT)}
    /\ output = None
    /\ last_call = NoCall
    /\ calls = 0
    /\ data = <<>> /\ pc = "start" /\ lines = <<>> /\ body_section = <<>>
    /\ request = NewRequest /\ error = None
    /\ srv = NewServer

NextResponse ==
    \/ \E name \in NameSet, value \in HeaderValueSet : set_header(name, value)
    \/ \E b \in ResponseBodySet : set_body(b)
    \/ \E text \in TextSet, encoding \in EncodingSet : set_text_body(text, encoding)
    \/ build

SpecResponse == InitResponse /\ [][NextResponse]_vars

InitServer ==
    /\ srv = NewServer
    /\ data = <<>> /\ pc = "start" /\ lines = <<>> /\ body_section = <<>>
    /\ request = NewRequest /\ error = None
    /\ response = NewResponse(200, OK_TEXT)
    /\ output = None /\ last_call = NoCall /\ calls = 0

NextServer ==
    \/ Listen \/ Accept \/ Interrupt \/ Recv \/ ParseRequest \/ Handle \/ Send
    \/ Except \/ Finally \/ Outer

SpecServer == InitServer /\ [][NextServer]_vars

----------------------------------------------------------------------------
(* Properties of HTTPRequest.parse *)

Parsed == pc = "returned"
Occurs(d, pat, i) == i >= 1 /\ i + Len(pat) - 1 <= Len(d) /\ SubSeq(d, i, i + Len(pat) - 1) = pat
OccursIn(d, pat) == \E i \in 1..Len(d) : Occurs(d, pat, i)
FirstAt(d, pat, i) == Occurs(d, pat, i) /\ \A j \in 1..(i - 1) : ~Occurs(d, pat, j)
StartsWith(d, h) == Len(d) >= Len(h) /\ SubSeq(d, 1, Len(h)) = h
\* The number of parts a line splits into on single spaces.
TokenCount(t) == Cardinality({i \in 1..Len(t) : t[i] = " "}) + 1

\* A non-empty token without spaces or line breaks; a trimmed one-line value.
IsToken(t) == t # <<>> /\ \A i \in 1..Len(t) : t[i] \notin {" ", CR, LF}
IsTrimmedValue(v) ==
    /\ \A i \in 1..Len(v) : v[i] \notin {CR, LF}
    /\ v # <<>> => v[1] \notin Whitespace /\ v[Len(v)] \notin Whitespace
WellFormedHead(m, p, ver, v) == WellFormed(m, p, ver, v, <<>>)
HEADER == <<"h","e","a","d","e","r">>
\* data is head \o BODY with BODY of at most 10240 bytes
OfTheForm(head) ==
    StartsWith(data, head) /\ Len(data) - Len(head) <= DEFAULT_MAX_BODY_SIZE
Recovered(m, p, ver, v, head) ==
    /\ pc # "raised"
    /\ Parsed => /\ request.method = Upper(m)
                 /\ request.path = p
                 /\ request.version = ver
                 /\ HEADER \in DOMAIN request.headers
                 /\ request.headers[HEADER] = v
                 /\ request.body = SubSeq(data, Len(head) + 1, Len(data))

\* C1 as stated: every input "METHOD PATH VERSION\r\nHeader: v\r\n\r\nBODY" whose
\* METHOD, PATH and VERSION are non-empty and free of spaces and line breaks, whose
\* v is trimmed and whose BODY has at most 10240 bytes parses without error to
\* method = METHOD uppercased, path = PATH, version = VERSION, headers["header"] = v
\* and body = BODY.
C1_AsStated ==
    pc \in {"raised", "returned"} =>
        \A m \in MethodSet, p \in PathSet, ver \in VersionSet, v \in ValueSet :
            (IsToken(m) /\ IsToken(p) /\ IsToken(ver) /\ IsTrimmedValue(v)) =>
                LET head == WellFormedHead(m, p, ver, v)
                IN  OfTheForm(head) => Recovered(m, p, ver, v, head)

\* C1, amended: the same, for inputs whose METHOD does not begin and whose VERSION
\* does not end with a whitespace character (the request line is trimmed before it
\* is split, so a leading tab of METHOD or a trailing form feed of VERSION is lost).
C1_WellFormedRecovered ==
    pc \in {"raised", "returned"} =>
        \A m \in MethodSet, p \in PathSet, ver \in VersionSet, v \in ValueSet :
            (/\ IsToken(m) /\ IsToken(p) /\ IsToken(ver) /\ IsTrimmedValue(v)
             /\ m[1] \notin Whitespace /\ ver[Len(ver)] \notin Whitespace) =>
                LET head == WellFormedHead(m, p, ver, v)
                IN  OfTheForm(head) => Recovered(m, p, ver, v, head)

C1_Witness ==
    /\ Parsed
    /\ data = WellFormed(<<"p","U+E9">>, <<"/","a",":","b","\t">>, <<"H","/","1">>,
                         <<"a"," ","b">>, <<"a",CR,LF,CR,LF,"b">>)
    /\ request.method = <<"P","U+C9">>
    /\ request.body = <<"a",CR,LF,CR,LF,"b">>

\* C2 as stated: after a successful parse the body is a prefix of the bytes after
\* the delimiter, of length min(content_length, available) when content_length is
\* present and min(10240, available) when it is absent.
C2_BodyLength ==
    Parsed =>
        LET avail == Len(body_section)
            cap == IF request.content_length # None THEN request.content_length[1]
                   ELSE DEFAULT_MAX_BODY_SIZE
        IN  /\ Len(request.body) <= avail
            /\ request.body = SubSeq(body_section, 1, Len(request.body))
            /\ Len(request.body) = IF cap < avail THEN cap ELSE avail

C4_ContentLength ==
    Parsed =>
        /\ request.content_length = None \/ request.content_length[1] >= 0
        /\ CONTENT_LENGTH \notin DOMAIN request.headers => request.content_length = None
        /\ (/\ CONTENT_LENGTH \in DOMAIN request.headers
            /\ request.headers[CONTENT_LENGTH] # <<>>
            /\ \A i \in 1..Len(request.headers[CONTENT_LENGTH]) :
                   IsDigit(request.headers[CONTENT_LENGTH][i]))
           => request.content_length = Some(DigitsValue(request.headers[CONTENT_LENGTH], 0))

\* The text of a header line, its first colon, and the name and value around it.
LineText(l) == Strip(Decode(l, "ignore").text)
HasColon(t) == \E i \in 1..Len(t) : t[i] = ":"
ColonAt(t) == CHOOSE i \in 1..Len(t) : t[i] = ":" /\ \A j \in 1..(i - 1) : t[j] # ":"
NameOf(t) == Lower(Strip(SubSeq(t, 1, ColonAt(t) - 1)))
ValueOf(t) == Strip(SubSeq(t, ColonAt(t) + 1, Len(t)))

\* C5: once the headers are parsed every key is lowercased and trimmed and every
\* value trimmed; the keys are exactly the names of the header lines that hold a
\* ':', each with the value of its last such line; and no header line makes parse
\* raise (an error comes from the request line only).
C5_Headers ==
    /\ pc \in {"body", "returned"} =>
        LET hl == Tail(lines)
            withColon == {i \in 1..Len(hl) : HasColon(LineText(hl[i]))}
            h == request.headers
        IN  /\ \A k \in DOMAIN h :
                   Lower(k) = k /\ Strip(k) = k /\ Strip(h[k]) = h[k]
            /\ DOMAIN h = {NameOf(LineText(hl[i])) : i \in withColon}
            /\ \A i \in withColon :
                   (\A j \in withColon :
                        j > i => NameOf(LineText(hl[j])) # NameOf(LineText(hl[i])))
                   => h[NameOf(LineText(hl[i]))] = ValueOf(LineText(hl[i]))
    /\ pc = "raised" =>
        ~(Decode(lines[1], "strict").ok
          /\ TokenCount(Strip(Decode(lines[1], "strict").text)) = 3)

C5_Witness ==
    /\ Parsed
    /\ Tail(lines) = << <<"H","o","s","t",":"," ","a",":","b">>,
                        <<"h","o","s","t",":","c"," ">> >>
    /\ request.headers[HOST] = <<"c">>
    /\ request.host = Some(<<"c">>)

\* C6: framing.  With a CRLF CRLF in the input the header section is what precedes
\* its first occurrence, split on CRLF, and the body source what follows it, even
\* when an LF LF comes earlier; otherwise the first LF LF is used and the section is
\* split on LF; with neither, the whole input is the header lines, the body is
\* empty, and parse raises only if the request line is bad.
C6_Framing ==
    pc # "start" =>
        IF OccursIn(data, CRLF \o CRLF)
        THEN \E i \in 1..Len(data) :
                /\ FirstAt(data, CRLF \o CRLF, i)
                /\ Join(lines, CRLF) = SubSeq(data, 1, i - 1)
                /\ \A k \in 1..Len(lines) : ~OccursIn(lines[k], CRLF)
                /\ body_section = SubSeq(data, i + 4, Len(data))
        ELSE IF OccursIn(data, <<LF, LF>>)
        THEN \E i \in 1..Len(data) :
                /\ FirstAt(data, <<LF, LF>>, i)
                /\ Join(lines, <<LF>>) = SubSeq(data, 1, i - 1)
                /\ \A k \in 1..Len(lines) : ~OccursIn(lines[k], <<LF>>)
                /\ body_section = SubSeq(data, i + 2, Len(data))
        ELSE /\ body_section = <<>>
             /\ Parsed => request.body = <<>>
             /\ LET sep == IF OccursIn(data, CRLF) THEN CRLF ELSE <<LF>>
                IN  /\ Join(lines, sep) = data
                    /\ \A k \in 1..Len(lines) : ~OccursIn(lines[k], sep)
             /\ (Decode(lines[1], "strict").ok
                 /\ TokenCount(Strip(Decode(lines[1], "strict").text)) = 3)
                => pc # "raised"

C6_Witness ==
    /\ Parsed
    /\ Len(lines) = 1
    /\ body_section = <<"c","d">>
    /\ request.body = <<"c","d">>
    /\ \E j \in 1..Len(data) :
          /\ FirstAt(data, CRLF \o CRLF, j)
          /\ \E i \in 1..(j - 1) : Occurs(data, <<LF, LF>>, i)

----------------------------------------------------------------------------
(* Properties of HTTPResponse *)

\* The serialized response read back: its header lines are the CRLF-separated lines
\* between the status line and the first blank line, the body what follows it.
BlankAt(out) == CHOOSE i \in 1..Len(out) : FirstAt(out, CRLF \o CRLF, i)
OutHeaderLines(out) == Tail(Split(SubSeq(out, 1, BlankAt(out) - 1), CRLF))
OutBody(out) == SubSeq(out, BlankAt(out) + 4, Len(out))
\* The header lines named Content-Length, and the number one of them carries.
LengthLines(out) ==
    SelectSeq(OutHeaderLines(out),
              LAMBDA l : HasColon(l) /\ SubSeq(l, 1, ColonAt(l) - 1) = CONTENT_LENGTH_NAME)
LengthValue(l) == PyInt(SubSeq(l, ColonAt(l) + 1, Len(l)))
OneTrueLength(out) ==
    /\ Len(LengthLines(out)) = 1
    /\ LengthValue(LengthLines(out)[1]) = Some(Len(OutBody(out)))
NoLineBreak(t) == \A i \in 1..Len(t) : t[i] \notin {CR, LF}
JustBuilt == last_call.op = "build" /\ output # None

\* C7 as stated: after any sequence of set_header, set_body and set_text_body calls
\* the bytes build() returns hold exactly one Content-Length header line, and its
\* value is the byte length of the body that follows the blank line.
C7_AsStated == JustBuilt => OneTrueLength(output[1])

\* C7, amended: the same, provided no header name holds a ':' or a line break and no
\* header value holds a line break (build writes names and values as they are, so a
\* CRLF inside one starts a new header line or ends the header section early).
C7_ContentLength ==
    (/\ JustBuilt
     /\ \A i \in 1..Len(response.headers) :
           /\ NoLineBreak(response.headers[i][1]) /\ ~HasColon(response.headers[i][1])
           /\ NoLineBreak(response.headers[i][2]))
    => /\ OneTrueLength(output[1])
       /\ OutBody(output[1]) = response.body

\* A wrong Content-Length was set, a body of another length followed, and an earlier
\* build had already written the header.
C7_Witness ==
    /\ JustBuilt
    /\ calls = 4
    /\ response.body = <<"h","i">>
    /\ response.headers = << <<CONTENT_LENGTH_NAME, <<"2">> >> >>
    /\ OutHeaderLines(output[1]) = << CONTENT_LENGTH_NAME \o <<":"," ","2">> >>
    /\ OutBody(output[1]) = <<"h","i">>

\* C8: a build() that directly follows a build() returns the same bytes and leaves
\* the builder as it was.
C8_BuildIdempotent ==
    [][(last_call.op = "build" /\ last_call'.op = "build" /\ calls' = calls + 1)
        => (output' = output /\ response' = response)]_vars

C8_Witness ==
    /\ last_call.op = "build" /\ last_call.prev = "build"
    /\ Len(response.headers) = 2
    /\ response.body # <<>>

\* C9: a set_text_body(text, encoding) that returns sets body to the encoded text and
\* changes nothing else, except that it adds Content-Type = "text/plain;
\* charset=<encoding>" after the other headers when no Content-Type header is set.
C9_TextBodyFrame ==
    [][(last_call'.op = "set_text_body" /\ calls' = calls + 1 /\ ~last_call'.raised)
        => /\ response'.body = Encode(last_call'.text, last_call'.encoding).bytes
           /\ response'.headers =
                 IF HasKey(response.headers, CONTENT_TYPE_NAME) THEN response.headers
                 ELSE Append(response.headers,
                             <<CONTENT_TYPE_NAME,
                               TEXT_PLAIN_CHARSET \o last_call'.encoding>>)
           /\ response'.status_code = response.status_code
           /\ response'.status_text = response.status_text
           /\ response'.version = response.version
           /\ output' = output]_vars

\* A second set_text_body with another encoding kept the first one's Content-Type.
C9_Witness ==
    /\ last_call.op = "set_text_body" /\ ~last_call.raised
    /\ last_call.encoding = LATIN1
    /\ response.body = <<"xE9">>
    /\ response.headers = << <<CONTENT_TYPE_NAME, TEXT_PLAIN_CHARSET \o UTF8>> >>

----------------------------------------------------------------------------
(* Properties of SimpleHTTPServer.start *)

Sent500(bytes) ==
    StartsWith(bytes, <<"H","T","T","P","/","1",".","1"," ","5","0","0"," ">>)

\* C10 as stated: no client socket is open when the loop accepts the next
\* connection; every connection on which something failed got a 500 response; and
\* no failure ends the loop (start() ends only on a KeyboardInterrupt).
C10_AsStated ==
    /\ srv.pc = "accept" => srv.open = {}
    /\ \A c \in 1..Len(srv.log) :
          (srv.log[c].failed /\ (c < srv.accepted \/ srv.pc \in {"accept", "outer", "raised"}))
          => \E k \in 1..Len(srv.log[c].sent) : Sent500(srv.log[c].sent[k])
    /\ srv.pc # "raised"

====
